---- MODULE Spec2Model ----
(***************************************************************************)
(* Z-Bus API: the declarative device state machines (switch, dimmer,       *)
(* directional, directional-group), the engine that interprets them        *)
(* (Machine.receive / execute / transmit / getTransitions), the event      *)
(* constructor and the dimmer payload codec.                               *)
(*                                                                         *)
(* Optional values (TypeScript `x?: T`) are sequences of length 0 or 1:    *)
(* None is undefined, Some(v) is the value v.  Brightness values are the   *)
(* numerators of fractions over 255 (unpack computes data[1] / 255), so    *)
(* 1.0 is 255 and 0.0 is 0.                                                *)
(***************************************************************************)
EXTENDS Integers, Sequences, FiniteSets, TLC

\* ---------------------------------------------------------------- bounds
\* Device addresses are drawn from 0..MaxAddress (the code allows 0..242).
MaxAddress == 2
\* Number of command codes outside the catalog that events may carry.
NumUnknownCodes == 2
\* Length of the run of consecutive transmit(device, 'default') calls that
\* is followed from construction.
MaxRun == 9

\* ------------------------------------------------------- optional values
None == <<>>
Some(v) == <<v>>
IsSome(o) == Len(o) = 1
Get(o) == o[1]

\* -------------------------------------------------------------- commands
\* mutant: 'toggle' shares the code of 'on'
Command_ToggleOn ==
  ("toggle" :> 3) @@ ("up-stop" :> 48) @@ ("down-stop" :> 192) @@
  ("start" :> 48) @@ ("end" :> 192) @@ ("on" :> 3) @@ ("off" :> 12) @@
  ("up" :> 3) @@ ("down" :> 12) @@ ("stop" :> 15)

\* enum Command: symbolic name -> numeric code (several names share a code)
Command ==
  ("toggle" :> 0) @@ ("up-stop" :> 48) @@ ("down-stop" :> 192) @@
  ("start" :> 48) @@ ("end" :> 192) @@ ("on" :> 3) @@ ("off" :> 12) @@
  ("up" :> 3) @@ ("down" :> 12) @@ ("stop" :> 15)

\* the reverse mapping the numeric enum compiles to: Command[48] is the
\* name declared last with code 48; its keys are the codes as strings
ReverseCommand ==
  ("0" :> "toggle") @@ ("3" :> "up") @@ ("12" :> "down") @@ ("15" :> "stop") @@
  ("48" :> "start") @@ ("192" :> "end")

\* isCommand: `command in Command`, true of every key of the enum object
isCommand(command) == command \in DOMAIN Command \cup DOMAIN ReverseCommand

\* Command[command] for a key of the enum object: a code, or a name
CommandValue(command) ==
  IF command \in DOMAIN Command THEN Command[command] ELSE ReverseCommand[command]

MaxDeviceAddress == 242
MaxCommand == 255
MaxByte == 255
FullBrightness == 255

\* A command argument is either a number or a string (typeof command).
Num(n) == [isNumber |-> TRUE, code |-> n, name |-> ""]
Name(s) == [isNumber |-> FALSE, code |-> 0, name |-> s]

\* --------------------------------------------------------------- events
\* new DeviceEvent(address, command, data): the event, or an error
EventOf(address, code, data) == [address |-> address, command |-> code, data |-> data]

ValidData(data) ==
  /\ Len(data) = 2
  /\ \A i \in 1..Len(data) : data[i] >= 0 /\ data[i] <= MaxByte

\* mutant: a name whose code is 0 counts as no command
DeviceEvent_FalsyCode(address, command, data) ==
  IF address < 0 \/ address > MaxDeviceAddress
    THEN [ok |-> FALSE, error |-> "address", event |-> None]
  ELSE IF command.isNumber /\ (command.code < 0 \/ command.code > MaxCommand)
    THEN [ok |-> FALSE, error |-> "command", event |-> None]
  ELSE IF ~command.isNumber /\ ~isCommand(command.name)
    THEN [ok |-> FALSE, error |-> "command", event |-> None]
  ELSE IF /\ ~command.isNumber /\ command.name \in DOMAIN Command
          /\ Command[command.name] = 0
    THEN [ok |-> FALSE, error |-> "command", event |-> None]
  ELSE IF IsSome(data) /\ Len(Get(data)) # 2
    THEN [ok |-> FALSE, error |-> "data length", event |-> None]
  ELSE IF IsSome(data) /\ ~ValidData(Get(data))
    THEN [ok |-> FALSE, error |-> "data values", event |-> None]
  ELSE [ok |-> TRUE, error |-> "",
        event |-> Some(EventOf(address,
                               IF command.isNumber THEN command.code
                                                   ELSE CommandValue(command.name),
                               data))]

DeviceEvent(address, command, data) ==
  IF address < 0 \/ address > MaxDeviceAddress
    THEN [ok |-> FALSE, error |-> "address", event |-> None]
  ELSE IF command.isNumber /\ (command.code < 0 \/ command.code > MaxCommand)
    THEN [ok |-> FALSE, error |-> "command", event |-> None]
  ELSE IF ~command.isNumber /\ ~isCommand(command.name)
    THEN [ok |-> FALSE, error |-> "command", event |-> None]
  ELSE IF IsSome(data) /\ Len(Get(data)) # 2
    THEN [ok |-> FALSE, error |-> "data length", event |-> None]
  ELSE IF IsSome(data) /\ ~ValidData(Get(data))
    THEN [ok |-> FALSE, error |-> "data values", event |-> None]
  ELSE [ok |-> TRUE, error |-> "",
        event |-> Some(EventOf(address,
                               IF command.isNumber THEN command.code
                                                   ELSE CommandValue(command.name),
                               data))]

\* ------------------------------------------------------ dimmer payload
\* A DimmerData object: brightness in 1/1000, duration in 1/100 s.
DimmerData(brightness, duration, direction) ==
  [brightness |-> brightness, duration |-> duration, direction |-> direction]

\* mutant: the fraction is cut off instead of rounded
Round_Floor(num, den) == num \div den

\* Math.round of the non-negative fraction num / den
Round(num, den) == (2 * num + den) \div (2 * den)

\* durations (in 1/100 s) at which 2.55 / duration - 1 lies halfway between
\* two integers and the double-precision result is just below that value
HalfwayBelow == {10, 34}

\* Math.round(2.55 / duration - 1), computed in double precision, for a
\* duration below 2.55 s: floor(2.55 / duration - 1/2), one less where the
\* double result falls below the halfway value
RoundReciprocal(duration) ==
  ((510 - duration) \div (2 * duration)) - (IF duration \in HalfwayBelow THEN 1 ELSE 0)

\* mutant: the direction is not checked against the brightness
pack_AnyDirection(properties) ==
  IF properties.brightness < 0 \/ properties.brightness > 1000
    THEN [ok |-> FALSE, error |-> "brightness", data |-> <<>>]
  ELSE IF properties.duration < 4 \/ properties.duration > 16000
    THEN [ok |-> FALSE, error |-> "duration", data |-> <<>>]
  ELSE
    LET code == IF properties.duration >= 255
                  THEN Round(properties.duration, 255) % 128
                  ELSE (RoundReciprocal(properties.duration) + 64) % 128
    IN [ok |-> TRUE, error |-> "",
        data |-> <<code + properties.direction * 128,
                   Round(properties.brightness * 255, 1000)>>]

\* DimmerData.pack: the two bytes, or an error
pack(properties) ==
  IF properties.brightness < 0 \/ properties.brightness > 1000
    THEN [ok |-> FALSE, error |-> "brightness", data |-> <<>>]
  ELSE IF properties.duration < 4 \/ properties.duration > 16000
    THEN [ok |-> FALSE, error |-> "duration", data |-> <<>>]
  ELSE IF properties.direction # 0 /\ properties.brightness # 1000
    THEN [ok |-> FALSE, error |-> "direction", data |-> <<>>]
  ELSE
    LET code == IF properties.duration >= 255
                  THEN Round(properties.duration, 255) % 128
                  ELSE (RoundReciprocal(properties.duration) + 64) % 128
        \* data[0] |= direction << 7 (bit 7 of code is clear)
        byte0 == code + properties.direction * 128
        byte1 == Round(properties.brightness * 255, 1000)
    IN [ok |-> TRUE, error |-> "", data |-> <<byte0, byte1>>]

\* mutant: the reciprocal range divides by code - 64
unpack_NoOffset(data) ==
  IF Len(data) # 2
    THEN [ok |-> FALSE, brightness |-> 0, durationNum |-> 0, durationDen |-> 1, direction |-> 0]
  ELSE IF \E i \in 1..2 : data[i] < 0 \/ data[i] > MaxByte
    THEN [ok |-> FALSE, brightness |-> 0, durationNum |-> 0, durationDen |-> 1, direction |-> 0]
  ELSE
    LET code == data[1] % 128
    IN [ok |-> TRUE,
        brightness |-> data[2],
        durationNum |-> IF code < 64 THEN code * 255 ELSE 255,
        durationDen |-> IF code < 64 THEN 100 ELSE 100 * (code - 64),
        direction |-> ((data[1] \div 128) % 2) * 128]

\* DimmerData.unpack: brightness as a numerator over 255, duration as the
\* fraction durationNum / durationDen seconds, direction as data[0] & 0x80
unpack(data) ==
  IF Len(data) # 2
    THEN [ok |-> FALSE, brightness |-> 0, durationNum |-> 0, durationDen |-> 1, direction |-> 0]
  ELSE IF \E i \in 1..2 : data[i] < 0 \/ data[i] > MaxByte
    THEN [ok |-> FALSE, brightness |-> 0, durationNum |-> 0, durationDen |-> 1, direction |-> 0]
  ELSE
    LET code == data[1] % 128
    IN [ok |-> TRUE,
        brightness |-> data[2],
        durationNum |-> IF code < 64 THEN code * 255 ELSE 255,
        durationDen |-> IF code < 64 THEN 100 ELSE 100 * (code - 64 + 1),
        direction |-> ((data[1] \div 128) % 2) * 128]

\* DimmerData.pack applied to what unpack returned: brightness
\* u.brightness / 255, duration u.durationNum / u.durationDen seconds,
\* direction u.direction (data[0] |= direction << 7 adds direction * 128
\* to the 7-bit code)
packUnpacked(u) ==
  IF u.brightness < 0 \/ u.brightness > FullBrightness
    THEN [ok |-> FALSE, error |-> "brightness", data |-> <<>>]
  ELSE IF 100 * u.durationNum < 4 * u.durationDen \/ u.durationNum > 160 * u.durationDen
    THEN [ok |-> FALSE, error |-> "duration", data |-> <<>>]
  ELSE IF u.direction # 0 /\ u.brightness # FullBrightness
    THEN [ok |-> FALSE, error |-> "direction", data |-> <<>>]
  ELSE
    LET code == IF 100 * u.durationNum >= 255 * u.durationDen
                  THEN Round(100 * u.durationNum, 255 * u.durationDen) % 128
                  ELSE (Round(255 * u.durationDen - 100 * u.durationNum,
                              100 * u.durationNum) + 64) % 128
        byte0 == code + u.direction * 128
        byte1 == Round(u.brightness * 255, FullBrightness)
    IN [ok |-> TRUE, error |-> "", data |-> <<byte0, byte1>>]

\* new DeviceEvent(address, command, packed bytes), unless pack threw
PackedEvent(address, command, packed) ==
  IF packed.ok THEN DeviceEvent(address, command, Some(packed.data))
               ELSE [ok |-> FALSE, error |-> packed.error, event |-> None]

\* DimmerDevice.createEvent(address, command, data)
createEvent(address, command, data) ==
  IF IsSome(data)
    THEN PackedEvent(address, command, pack(Get(data)))
    ELSE DeviceEvent(address, command, None)

\* --------------------------------------------------- transition tables
States == {"undefined", "on", "off", "up", "down", "stop"}

\* interface Transition, with the key under which a transitions object
\* lists it; guard "" is no guard
Transition(key, command, target, actions, guard) ==
  [key |-> key, command |-> command, target |-> target,
   actions |-> actions, guard |-> guard]

\* interface StateDefinition; default is a command name, or an array of
\* candidate transitions, or absent
DefaultName(name) == [kind |-> "string", name |-> name, list |-> <<>>]
DefaultArray(list) == [kind |-> "array", name |-> "", list |-> list]
NoDefault == [kind |-> "none", name |-> "", list |-> <<>>]

StateDefinition(enter, exit, default, transitions) ==
  [enter |-> enter, exit |-> exit, default |-> default, transitions |-> transitions]

EmptyStateDefinition == StateDefinition(<<>>, <<>>, NoDefault, <<>>)

\* mutant: the local toggle of state 'on' targets 'on'
SwitchingDeviceMachine_ToggleStuck ==
  [event |-> FALSE,
   transitions |-> << Transition("on", "on", "on", <<>>, ""),
                      Transition("off", "off", "off", <<>>, "") >>,
   states |->
     ("undefined" :> StateDefinition(<<>>, <<>>, DefaultName("on"), <<>>)) @@
     ("off" :> StateDefinition(<<>>, <<>>, DefaultName("on"),
                 << Transition("toggle", "toggle", "on", <<>>, "") >>)) @@
     ("on" :> StateDefinition(<<>>, <<>>, DefaultName("off"),
                 << Transition("toggle", "toggle", "on", <<>>, "") >>))]

SwitchingDeviceMachine ==
  [event |-> FALSE,
   transitions |-> << Transition("on", "on", "on", <<>>, ""),
                      Transition("off", "off", "off", <<>>, "") >>,
   states |->
     ("undefined" :> StateDefinition(<<>>, <<>>, DefaultName("on"), <<>>)) @@
     ("off" :> StateDefinition(<<>>, <<>>, DefaultName("on"),
                 << Transition("toggle", "toggle", "on", <<>>, "") >>)) @@
     ("on" :> StateDefinition(<<>>, <<>>, DefaultName("off"),
                 << Transition("toggle", "toggle", "off", <<>>, "") >>))]

\* mutant: the default of state 'on' is the local toggle
DimmerDeviceMachine_DefaultToggle ==
  [event |-> TRUE,
   transitions |-> << Transition("on", "on", "on", <<"setBrightness">>, ""),
                      Transition("off", "off", "off", <<>>, "") >>,
   states |->
     ("undefined" :> StateDefinition(<<>>, <<>>, DefaultName("on"), <<>>)) @@
     ("off" :> StateDefinition(<<"resetBrightness">>, <<>>, DefaultName("on"),
                 << Transition("toggle", "toggle", "on", <<"restoreBrightness">>, "") >>)) @@
     ("on" :> StateDefinition(<<>>, <<>>, DefaultName("toggle"),
                 << Transition("toggle", "toggle", "off", <<>>, "") >>))]

DimmerDeviceMachine ==
  [event |-> TRUE,
   transitions |-> << Transition("on", "on", "on", <<"setBrightness">>, ""),
                      Transition("off", "off", "off", <<>>, "") >>,
   states |->
     ("undefined" :> StateDefinition(<<>>, <<>>, DefaultName("on"), <<>>)) @@
     ("off" :> StateDefinition(<<"resetBrightness">>, <<>>, DefaultName("on"),
                 << Transition("toggle", "toggle", "on", <<"restoreBrightness">>, "") >>)) @@
     ("on" :> StateDefinition(<<>>, <<>>, DefaultName("off"),
                 << Transition("toggle", "toggle", "off", <<>>, "") >>))]

\* mutant: up-stop in state 'down' stops instead of reversing
DirectionalDeviceMachine_NoReverse ==
  [event |-> FALSE,
   transitions |-> << Transition("up", "up", "up", <<>>, ""),
                      Transition("down", "down", "down", <<>>, ""),
                      Transition("stop", "stop", "stop", <<>>, "") >>,
   states |->
     ("undefined" :> StateDefinition(<<>>, <<>>, DefaultName("up"), <<>>)) @@
     ("up" :> StateDefinition(<<>>, <<>>, DefaultName("stop"),
                 << Transition("up-stop", "up-stop", "stop", <<>>, ""),
                    Transition("down-stop", "down-stop", "down", <<>>, "") >>)) @@
     ("down" :> StateDefinition(<<>>, <<>>, DefaultName("stop"),
                 << Transition("up-stop", "up-stop", "stop", <<>>, ""),
                    Transition("down-stop", "down-stop", "stop", <<>>, "") >>)) @@
     ("stop" :> StateDefinition(<<"storeMemory">>, <<>>,
                 DefaultArray(<< Transition("", "up", "up", <<>>, "memoryDown"),
                                 Transition("", "down", "down", <<>>, "memoryUp") >>),
                 << Transition("up-stop", "up-stop", "up", <<>>, ""),
                    Transition("down-stop", "down-stop", "down", <<>>, "") >>))]

DirectionalDeviceMachine ==
  [event |-> FALSE,
   transitions |-> << Transition("up", "up", "up", <<>>, ""),
                      Transition("down", "down", "down", <<>>, ""),
                      Transition("stop", "stop", "stop", <<>>, "") >>,
   states |->
     ("undefined" :> StateDefinition(<<>>, <<>>, DefaultName("up"), <<>>)) @@
     ("up" :> StateDefinition(<<>>, <<>>, DefaultName("stop"),
                 << Transition("up-stop", "up-stop", "stop", <<>>, ""),
                    Transition("down-stop", "down-stop", "down", <<>>, "") >>)) @@
     ("down" :> StateDefinition(<<>>, <<>>, DefaultName("stop"),
                 << Transition("up-stop", "up-stop", "up", <<>>, ""),
                    Transition("down-stop", "down-stop", "stop", <<>>, "") >>)) @@
     ("stop" :> StateDefinition(<<"storeMemory">>, <<>>,
                 DefaultArray(<< Transition("", "up", "up", <<>>, "memoryDown"),
                                 Transition("", "down", "down", <<>>, "memoryUp") >>),
                 << Transition("up-stop", "up-stop", "up", <<>>, ""),
                    Transition("down-stop", "down-stop", "down", <<>>, "") >>))]

\* mutant: the global transitions carry no guard (as in the directional table)
DirectionalGroupDeviceMachine_Unguarded ==
  [event |-> FALSE,
   transitions |-> << Transition("up", "up", "up", <<>>, ""),
                      Transition("down", "down", "down", <<>>, ""),
                      Transition("stop", "stop", "stop", <<>>, "") >>,
   states |->
     ("undefined" :> EmptyStateDefinition) @@
     ("up" :> StateDefinition(<<>>, <<>>, DefaultName("up-stop"),
                 << Transition("up-stop", "up-stop", "stop", <<>>, "own"),
                    Transition("down-stop", "down-stop", "down", <<>>, "own") >>)) @@
     ("down" :> StateDefinition(<<>>, <<>>, DefaultName("down-stop"),
                 << Transition("up-stop", "up-stop", "up", <<>>, "own"),
                    Transition("down-stop", "down-stop", "stop", <<>>, "own") >>)) @@
     ("stop" :> StateDefinition(<<"storeMemory">>, <<>>,
                 DefaultArray(<< Transition("", "up-stop", "up", <<>>, "memoryDown"),
                                 Transition("", "down-stop", "down", <<>>, "memoryUp") >>),
                 << Transition("up-stop", "up-stop", "up", <<>>, "own"),
                    Transition("down-stop", "down-stop", "down", <<>>, "own") >>))]

DirectionalGroupDeviceMachine ==
  [event |-> FALSE,
   transitions |-> << Transition("up", "up", "up", <<>>, "groupOrCentral"),
                      Transition("down", "down", "down", <<>>, "groupOrCentral"),
                      Transition("stop", "stop", "stop", <<>>, "groupOrCentral") >>,
   states |->
     ("undefined" :> EmptyStateDefinition) @@
     ("up" :> StateDefinition(<<>>, <<>>, DefaultName("up-stop"),
                 << Transition("up-stop", "up-stop", "stop", <<>>, "own"),
                    Transition("down-stop", "down-stop", "down", <<>>, "own") >>)) @@
     ("down" :> StateDefinition(<<>>, <<>>, DefaultName("down-stop"),
                 << Transition("up-stop", "up-stop", "up", <<>>, "own"),
                    Transition("down-stop", "down-stop", "stop", <<>>, "own") >>)) @@
     ("stop" :> StateDefinition(<<"storeMemory">>, <<>>,
                 DefaultArray(<< Transition("", "up-stop", "up", <<>>, "memoryDown"),
                                 Transition("", "down-stop", "down", <<>>, "memoryUp") >>),
                 << Transition("up-stop", "up-stop", "up", <<>>, "own"),
                    Transition("down-stop", "down-stop", "down", <<>>, "own") >>))]

DeviceTypes == {"switch", "dimmer", "directional", "directional-group"}

machineDefinitions ==
  ("switch" :> SwitchingDeviceMachine) @@
  ("dimmer" :> DimmerDeviceMachine) @@
  ("directional" :> DirectionalDeviceMachine) @@
  ("directional-group" :> DirectionalGroupDeviceMachine)

\* ----------------------------------------------------- guards, actions
\* device.address?.[i] with the source's 0-based index
AddressAt(device, i) ==
  IF i + 1 \in DOMAIN device.address THEN Some(device.address[i + 1]) ELSE None

\* mutant: the own-address guard of the local step transitions always holds
EvalGuard_OwnAlways(guard, device, event) ==
  CASE guard = "" -> TRUE
    [] guard = "groupOrCentral" ->
         \/ AddressAt(device, 1) = Some(event.address)
         \/ AddressAt(device, 2) = Some(event.address)
    [] guard = "own" -> TRUE
    [] guard = "memoryDown" ->
         (IF IsSome(device.memory) THEN Get(device.memory) ELSE "down") = "down"
    [] guard = "memoryUp" -> device.memory = Some("up")

\* the guard functions of the tables, by name
EvalGuard(guard, device, event) ==
  CASE guard = "" -> TRUE
    [] guard = "groupOrCentral" ->
         \/ AddressAt(device, 1) = Some(event.address)
         \/ AddressAt(device, 2) = Some(event.address)
    [] guard = "own" -> AddressAt(device, 0) = Some(event.address)
    [] guard = "memoryDown" ->
         (IF IsSome(device.memory) THEN Get(device.memory) ELSE "down") = "down"
    [] guard = "memoryUp" -> device.memory = Some("up")

\* the device's state as the actions read it (device?.state)
StateOf(device) == IF device.state = "undefined" THEN None ELSE Some(device.state)

\* mutant: the brightness is read from the first payload byte
setBrightness_Byte0(device, event) ==
  IF IsSome(event.data)
    THEN LET u == unpack(Get(event.data))
         IN IF u.ok
              THEN [ok |-> TRUE, device |-> [device EXCEPT !.brightness = Some(Get(event.data)[1])]]
              ELSE [ok |-> FALSE, device |-> device]
    ELSE [ok |-> TRUE, device |-> [device EXCEPT !.brightness = Some(FullBrightness)]]

setBrightness(device, event) ==
  IF IsSome(event.data)
    THEN LET u == unpack(Get(event.data))
         IN IF u.ok
              THEN [ok |-> TRUE, device |-> [device EXCEPT !.brightness = Some(u.brightness)]]
              ELSE [ok |-> FALSE, device |-> device]
    ELSE [ok |-> TRUE, device |-> [device EXCEPT !.brightness = Some(FullBrightness)]]

\* mutant: entering 'off' stores the brightness without clearing it
resetBrightness_Keep(device) ==
  [ok |-> TRUE, device |-> [device EXCEPT !.memory = device.brightness]]

resetBrightness(device) ==
  [ok |-> TRUE,
   device |-> [device EXCEPT !.memory = device.brightness, !.brightness = Some(0)]]

\* mutant: toggling on always restores full brightness
restoreBrightness_Full(device) ==
  [ok |-> TRUE, device |-> [device EXCEPT !.brightness = Some(FullBrightness)]]

restoreBrightness(device) ==
  [ok |-> TRUE,
   device |-> [device EXCEPT !.brightness =
                 IF IsSome(device.memory) THEN device.memory ELSE Some(FullBrightness)]]

\* mutant: entering 'stop' forgets the direction
storeMemory_Clear(device) ==
  [ok |-> TRUE, device |-> [device EXCEPT !.memory = None]]

\* stop.enter of the directional tables: device.memory = device?.state
storeMemory(device) ==
  [ok |-> TRUE, device |-> [device EXCEPT !.memory = StateOf(device)]]

ApplyAction(action, device, event) ==
  CASE action = "setBrightness" -> setBrightness(device, event)
    [] action = "resetBrightness" -> resetBrightness(device)
    [] action = "restoreBrightness" -> restoreBrightness(device)
    [] action = "storeMemory" -> storeMemory(device)

\* forEach over a list of actions; an action that throws ends the run
RECURSIVE RunActions(_, _, _)
RunActions(actions, device, event) ==
  IF actions = <<>> THEN [ok |-> TRUE, device |-> device]
  ELSE LET r == ApplyAction(Head(actions), device, event)
       IN IF r.ok THEN RunActions(Tail(actions), r.device, event) ELSE r

\* --------------------------------------------------------------- engine
getMachineDefinition(device) == machineDefinitions[device.type]

\* states?.[name] ?? {}
StateDefinitionOf(states, name) ==
  IF name \in DOMAIN states THEN states[name] ELSE EmptyStateDefinition

getCurrentStateDefinition(device) ==
  StateDefinitionOf(getMachineDefinition(device).states, device.state)

getTargetStateDefinition(device, target) ==
  StateDefinitionOf(getMachineDefinition(device).states, target)

Allowed(transition, device, event) == EvalGuard(transition.guard, device, event)

\* mutant: the global transitions count only in states without local ones
getAllowedTransitions_LocalOnly(device, event) ==
  SelectSeq(IF getCurrentStateDefinition(device).transitions # <<>>
              THEN getCurrentStateDefinition(device).transitions
              ELSE getMachineDefinition(device).transitions,
            LAMBDA t : Allowed(t, device, event))

\* local transitions first, then the global ones, filtered by guard
getAllowedTransitions(device, event) ==
  SelectSeq(getCurrentStateDefinition(device).transitions
              \o getMachineDefinition(device).transitions,
            LAMBDA t : Allowed(t, device, event))

\* the keys of a list of transitions, in order
Keys(transitions) == [i \in 1..Len(transitions) |-> transitions[i].key]

getAllowedTransitionKeys(device, event) == Keys(getAllowedTransitions(device, event))

\* the first element of a list, if any
First(list) == IF list = <<>> THEN None ELSE Some(list[1])

\* transitions?.[name]
Lookup(transitions, name) == First(SelectSeq(transitions, LAMBDA t : t.key = name))

\* a ?? b
Coalesce(a, b) == IF IsSome(a) THEN a ELSE b

\* the candidate list _transition before the guards are applied
DefaultCandidates(currentStateDefinition, machineDefinition) ==
  CASE currentStateDefinition.default.kind = "string" ->
         Coalesce(Lookup(currentStateDefinition.transitions,
                         currentStateDefinition.default.name),
                  Lookup(machineDefinition.transitions,
                         currentStateDefinition.default.name))
    [] currentStateDefinition.default.kind = "array" ->
         currentStateDefinition.default.list
    [] OTHER -> <<>>

\* _transition.length === 1 ? _transition[0] : undefined
Single(list) == IF Len(list) = 1 THEN Some(list[1]) ELSE None

\* mutant: the first candidate is taken without evaluating the guards
getDefaultTransition_First(device) ==
  First(DefaultCandidates(getCurrentStateDefinition(device),
                          getMachineDefinition(device)))

getDefaultTransition(device) ==
  Single(SelectSeq(DefaultCandidates(getCurrentStateDefinition(device),
                                     getMachineDefinition(device)),
                   LAMBDA t : Allowed(t, device, EventOf(device.address[1], 0, None))))

\* mutant: every list is evaluated for the first address of the device
getTransitions_OwnOnly(device) ==
  [i \in 1..Len(device.address) |->
     getAllowedTransitionKeys(device, EventOf(device.address[1], 0, None))]

getTransitions(device) ==
  [i \in 1..Len(device.address) |->
     getAllowedTransitionKeys(device, EventOf(device.address[i], 0, None))]

\* mutant: the result reports the new state as the previous one
Commit_PreviousAfter(run, transition, previous, event) ==
  IF run.ok
    THEN [ok |-> TRUE,
          device |-> [run.device EXCEPT !.state = transition.target],
          result |-> Some([state |-> transition.target,
                           previous |-> transition.target, event |-> event])]
    ELSE [ok |-> FALSE, device |-> run.device, result |-> None]

\* the end of execute: the assignment of the state and the StateResult,
\* unless an action threw
Commit(run, transition, previous, event) ==
  IF run.ok
    THEN [ok |-> TRUE,
          device |-> [run.device EXCEPT !.state = transition.target],
          result |-> Some([state |-> transition.target, previous |-> previous,
                           event |-> event])]
    ELSE [ok |-> FALSE, device |-> run.device, result |-> None]

\* mutant: the state is assigned before the actions run
execute_AssignFirst(device, transition, event) ==
  Commit(RunActions(getCurrentStateDefinition(device).exit
                      \o transition.actions
                      \o getTargetStateDefinition(device, transition.target).enter,
                    [device EXCEPT !.state = transition.target], event),
         transition, device.state, event)

\* Machine.execute for a transition that was found: exit actions, the
\* transition's actions, entry actions, then the assignment of the state
execute(device, transition, event) ==
  Commit(RunActions(getCurrentStateDefinition(device).exit
                      \o transition.actions
                      \o getTargetStateDefinition(device, transition.target).enter,
                    device, event),
         transition, device.state, event)

Includes(seq, x) == \E i \in 1..Len(seq) : seq[i] = x

\* mutant: an event that leads nowhere leaves the state undefined
Ignored_Resets(device) ==
  [ok |-> TRUE, device |-> [device EXCEPT !.state = "undefined"], result |-> None]

\* receive without a transition to execute: nothing returned
Ignored(device) == [ok |-> TRUE, device |-> device, result |-> None]

\* Machine.execute with the transition that find returned, if any
ExecuteFound(device, matching, event) ==
  IF matching = <<>> THEN Ignored(device) ELSE execute(device, matching[1], event)

\* mutant: an event that matches no transition raises an error
ExecuteFound_Strict(device, matching, event) ==
  IF matching = <<>> THEN [ok |-> FALSE, device |-> device, result |-> None]
                     ELSE execute(device, matching[1], event)

\* mutant: the address list of the device is not consulted
receive_AnyAddress(device, event) ==
  ExecuteFound(device,
               SelectSeq(getAllowedTransitions(device, event),
                         LAMBDA t : Command[t.command] = event.command),
               event)

\* mutant: an event that matches no transition raises an error
receive_Strict(device, event) ==
  IF Includes(device.address, event.address)
    THEN ExecuteFound_Strict(device,
                             SelectSeq(getAllowedTransitions(device, event),
                                       LAMBDA t : Command[t.command] = event.command),
                             event)
    ELSE Ignored(device)

receive(device, event) ==
  IF Includes(device.address, event.address)
    THEN ExecuteFound(device,
                      SelectSeq(getAllowedTransitions(device, event),
                                LAMBDA t : Command[t.command] = event.command),
                      event)
    ELSE Ignored(device)

\* Machine.transmit(device, command, data, addressIndex, changeState);
\* command "default" is the name 'default'; data is absent, an array or
\* a DimmerData object
NoData == [kind |-> "undefined", array |-> <<>>, object |-> DimmerData(0, 0, 0)]
ArrayData(a) == [kind |-> "array", array |-> a, object |-> DimmerData(0, 0, 0)]
ObjectData(o) == [kind |-> "object", array |-> <<>>, object |-> o]

\* getDefaultTransition(device)?.command
CommandOf(transition) ==
  IF IsSome(transition) THEN Some(Name(Get(transition).command)) ELSE None

\* _command
ResolveCommand(device, command) ==
  IF ~command.isNumber /\ command.name = "default"
    THEN CommandOf(getDefaultTransition(device))
    ELSE Some(command)

\* _event: by the event factory of the machine definition, if it has one
\* and data is no array, else by the DeviceEvent constructor
BuildEvent(machineDefinition, _address, _command, data) ==
  IF machineDefinition.event /\ data.kind # "array"
    THEN createEvent(_address, _command,
                     IF data.kind = "object" THEN Some(data.object) ELSE None)
    ELSE DeviceEvent(_address, _command,
                     IF data.kind = "array" THEN Some(data.array) ELSE None)

NothingSent(device) == [ok |-> TRUE, device |-> device, event |-> None, result |-> None]

\* what transmit returns after Machine.receive(device, _event)
AfterReceive(received, _event) ==
  [ok |-> received.ok, device |-> received.device,
   event |-> IF received.ok THEN _event ELSE None,
   result |-> received.result]

\* mutant: the event applied locally carries no payload
SendEvent_DropPayload(device, built, changeState) ==
  IF ~built.ok
    THEN [ok |-> FALSE, device |-> device, event |-> None, result |-> None]
  ELSE IF changeState
    THEN AfterReceive(receive(device, [Get(built.event) EXCEPT !.data = None]),
                      built.event)
  ELSE [ok |-> TRUE, device |-> device, event |-> built.event, result |-> None]

\* the rest of transmit once _event is built (or its construction threw)
SendEvent(device, built, changeState) ==
  IF ~built.ok
    THEN [ok |-> FALSE, device |-> device, event |-> None, result |-> None]
  ELSE IF changeState
    THEN AfterReceive(receive(device, Get(built.event)), built.event)
  ELSE [ok |-> TRUE, device |-> device, event |-> built.event, result |-> None]

\* mutant: the state change is applied before the event is built
Send_ApplyFirst(device, _address, _command, data, changeState) ==
  IF IsSome(_address) /\ IsSome(_command)
    THEN LET built == BuildEvent(getMachineDefinition(device), Get(_address),
                                 Get(_command), data)
             code == IF Get(_command).isNumber THEN Get(_command).code
                     ELSE IF Get(_command).name \in DOMAIN Command
                       THEN Command[Get(_command).name] ELSE -1
         IN IF built.ok \/ ~changeState
              THEN SendEvent(device, built, changeState)
              ELSE [ok |-> FALSE,
                    device |-> receive(device, EventOf(Get(_address), code, None)).device,
                    event |-> None, result |-> None]
    ELSE NothingSent(device)

\* mutant: the event is applied locally whatever changeState says
Send_AlwaysApply(device, _address, _command, data, changeState) ==
  IF IsSome(_address) /\ IsSome(_command)
    THEN SendEvent(device,
                   BuildEvent(getMachineDefinition(device), Get(_address),
                              Get(_command), data),
                   TRUE)
    ELSE NothingSent(device)

\* the body of transmit once _address and _command are known
Send(device, _address, _command, data, changeState) ==
  IF IsSome(_address) /\ IsSome(_command)
    THEN SendEvent(device,
                   BuildEvent(getMachineDefinition(device), Get(_address),
                              Get(_command), data),
                   changeState)
    ELSE NothingSent(device)

\* mutant: the event always goes to the first address of the device
transmit_OwnAddress(device, command, data, addressIndex, changeState) ==
  Send(device,
       IF IsSome(AddressAt(device, addressIndex)) THEN AddressAt(device, 0) ELSE None,
       ResolveCommand(device, command), data, changeState)

transmit(device, command, data, addressIndex, changeState) ==
  Send(device, AddressAt(device, addressIndex), ResolveCommand(device, command),
       data, changeState)

\* ----------------------------------------------------------- the system
\* device: the device record the caller owns; pc: the caller is between
\* calls ("idle") or holds the outcome of a call ("returned"); call: the
\* call made and its arguments; prev: the record before the call; ret:
\* what the call returned; defaultRun: number of transmit(device,
\* 'default') calls made so far when nothing else has been called since
\* construction, else -1; transmission: the events pushed onto the linked
\* transmission sink of the ZBus instance, in order.
VARIABLES device, pc, call, prev, ret, defaultRun, transmission

vars == <<device, pc, call, prev, ret, defaultRun, transmission>>

Addresses == 0..MaxAddress
\* addresses of events on the bus: one more than the devices use
EventAddresses == 0..(MaxAddress + 1)

CatalogCodes == {Command[n] : n \in DOMAIN Command}
UnknownCodes == 13..(12 + NumUnknownCodes)
Codes == CatalogCodes \cup UnknownCodes

\* payloads: brightness bytes 0x00, 0x80, 0xff with an 8 s ramp, and two
\* payloads the DeviceEvent constructor would reject
Payloads == {<<3, 0>>, <<3, 128>>, <<3, 255>>}
MalformedPayloads == {<<7>>, <<3, 256>>}
EventData == {None} \cup {Some(p) : p \in Payloads \cup MalformedPayloads}

Events == {EventOf(a, c, d) : a \in EventAddresses, c \in Codes, d \in EventData}

WellFormed(event) == IsSome(event.data) => ValidData(Get(event.data))

Commands == {Name(n) : n \in DOMAIN Command \cup {"default"}} \cup {Num(c) : c \in Codes}
TransmitData ==
  {NoData, ArrayData(<<3, 128>>),
   ObjectData(DimmerData(500, 800, 0)), ObjectData(DimmerData(1000, 800, 0))}
AddressIndices == 0..3

\* the constructors of the four device classes (addresses in range)
SwitchingDevice(address) ==
  [type |-> "switch", address |-> <<address>>, state |-> "undefined",
   memory |-> None, brightness |-> None]
DimmerDevice(address) ==
  [type |-> "dimmer", address |-> <<address>>, state |-> "undefined",
   memory |-> None, brightness |-> None]
DirectionalDevice(address) ==
  [type |-> "directional", address |-> <<address>>, state |-> "undefined",
   memory |-> None, brightness |-> None]
DirectionalGroupDevice(address, group, central) ==
  [type |-> "directional-group", address |-> <<address, group, central>>,
   state |-> "undefined", memory |-> None, brightness |-> None]

NewDevices ==
  {SwitchingDevice(a) : a \in Addresses} \cup
  {DimmerDevice(a) : a \in Addresses} \cup
  {DirectionalDevice(a) : a \in Addresses} \cup
  {DirectionalGroupDevice(a, g, c) : a \in Addresses, g \in Addresses, c \in Addresses}

NoEvent == EventOf(0, 0, None)
NoCall ==
  [op |-> "none", event |-> NoEvent, command |-> Num(0), data |-> NoData,
   addressIndex |-> 0, changeState |-> FALSE, address |-> 0,
   addresses |-> <<>>, single |-> FALSE, sink |-> <<>>,
   addressFilter |-> [kind |-> "undefined", list |-> <<>>],
   commandFilter |-> [kind |-> "undefined", list |-> <<>>],
   source |-> <<>>]
NoRet ==
  [ok |-> TRUE, result |-> None, event |-> None, keys |-> <<>>, error |-> "",
   data |-> <<>>, unpacked |-> unpack(<<>>), events |-> <<>>]

Init ==
  /\ device \in NewDevices
  /\ pc = "idle"
  /\ call = NoCall
  /\ prev = device
  /\ ret = NoRet
  /\ defaultRun = 0
  /\ transmission = <<>>

\* the caller holds the outcome r of the call c
Returned(c, r) ==
  /\ device' = r.device
  /\ call' = c
  /\ ret' = [NoRet EXCEPT !.ok = r.ok, !.result = r.result, !.event = r.event]
  /\ prev' = device
  /\ pc' = "returned"
  /\ UNCHANGED transmission

\* a StateResult (or none) as an outcome without event
WithoutEvent(r) == [ok |-> r.ok, device |-> r.device, result |-> r.result, event |-> None]

\* Machine.receive(device, event)
Receive ==
  /\ pc = "idle"
  /\ \E event \in Events :
       Returned([NoCall EXCEPT !.op = "receive", !.event = event],
                WithoutEvent(receive(device, event)))
  /\ defaultRun' = -1

\* Machine.transmit(device, command, data, addressIndex, changeState)
Transmit ==
  /\ pc = "idle"
  /\ \E command \in Commands, data \in TransmitData,
        addressIndex \in AddressIndices, changeState \in BOOLEAN :
       /\ Returned([NoCall EXCEPT !.op = "transmit", !.command = command,
                                  !.data = data, !.addressIndex = addressIndex,
                                  !.changeState = changeState],
                   transmit(device, command, data, addressIndex, changeState))
       /\ defaultRun' =
            IF /\ command = Name("default") /\ data = NoData
               /\ addressIndex = 0 /\ changeState
               /\ defaultRun >= 0 /\ defaultRun < MaxRun
              THEN defaultRun + 1 ELSE -1

\* Machine.getTransitions(device)
GetTransitions ==
  /\ pc = "idle"
  /\ device' = device
  /\ call' = [NoCall EXCEPT !.op = "getTransitions"]
  /\ ret' = [NoRet EXCEPT !.keys = getTransitions(device)]
  /\ prev' = device
  /\ pc' = "returned"
  /\ UNCHANGED transmission
  /\ defaultRun' = -1

\* the caller goes on to its next call, keeping only the device record
Continue ==
  /\ pc = "returned"
  /\ pc' = "idle"
  /\ call' = NoCall
  /\ prev' = device
  /\ ret' = NoRet
  /\ UNCHANGED <<device, defaultRun, transmission>>

Next == Receive \/ Transmit \/ GetTransitions \/ Continue

Spec == Init /\ [][Next]_vars

\* directional-group devices in state 'stop' that hold no memory, as a
\* caller sets them up (and as 'stop' received in state undefined leaves them)
StoppedDevices ==
  {[DirectionalGroupDevice(a, g, c) EXCEPT !.state = "stop"] :
     a \in Addresses, g \in Addresses, c \in Addresses}

InitStopped ==
  /\ device \in StoppedDevices
  /\ pc = "idle"
  /\ call = NoCall
  /\ prev = device
  /\ ret = NoRet
  /\ defaultRun = 0
  /\ transmission = <<>>

\* Machine.transmit(device, 'default'), one call of a run
TransmitDefault ==
  /\ pc = "idle"
  /\ defaultRun < MaxRun
  /\ Returned([NoCall EXCEPT !.op = "transmit", !.command = Name("default"),
                             !.changeState = TRUE],
              transmit(device, Name("default"), NoData, 0, TRUE))
  /\ defaultRun' = defaultRun + 1

NextStopped == TransmitDefault \/ Continue

\* a caller stepping a stopped group device by default transmits only
SpecStopped == InitStopped /\ [][NextStopped]_vars

\* arguments of the DeviceEvent constructor: addresses and codes at and
\* beyond the ends of their ranges, names inside and outside the catalog,
\* payloads of every length up to 3 with bytes inside and outside 0..255
ConstructorAddresses == {-1, 0, 1, MaxDeviceAddress, MaxDeviceAddress + 1}
ConstructorCommands ==
  {Num(c) : c \in {-1, 0, 3, MaxCommand, MaxCommand + 1}} \cup
  {Name(n) : n \in DOMAIN Command \cup DOMAIN ReverseCommand \cup {"no-nii", "default"}}
ConstructorData ==
  {NoData} \cup
  {ArrayData(a) : a \in {<<>>, <<0>>, <<0, 0>>, <<3, MaxByte>>, <<0, 0, 0>>,
                         <<3, MaxByte + 1>>, <<-1, MaxByte>>, <<MaxByte + 1>>}}

\* new DeviceEvent(address, command, data)
NewDeviceEvent ==
  /\ pc = "idle"
  /\ \E address \in ConstructorAddresses, command \in ConstructorCommands,
        data \in ConstructorData :
       LET r == DeviceEvent(address, command,
                            IF data.kind = "array" THEN Some(data.array) ELSE None)
       IN /\ call' = [NoCall EXCEPT !.op = "new DeviceEvent", !.address = address,
                                    !.command = command, !.data = data]
          /\ ret' = [NoRet EXCEPT !.ok = r.ok, !.event = r.event, !.error = r.error]
  /\ prev' = device
  /\ pc' = "returned"
  /\ UNCHANGED <<device, defaultRun, transmission>>

NextEvent == NewDeviceEvent \/ Continue

\* a caller constructing events
SpecEvent == Init /\ [][NextEvent]_vars

\* arguments of DimmerData.pack: every brightness from 0 to 1 in steps of
\* 1/1000 and values outside, with some durations; every duration from
\* 0.04 s to 160 s in steps of 1/100 s and values outside, with some
\* brightnesses; direction 0 and 1
PackBrightnesses == {-100, -1} \cup (0..1000) \cup {1001, 1100}
PackDurations == {3} \cup (4..16000) \cup {16001, 16100}
SomeBrightnesses == {-100, 0, 500, 1000, 1100}
SomeDurations == {3, 4, 10, 34, 254, 255, 800, 16000, 16001, 16100}
PackDirections == {0, 1}

\* the outcome of DimmerData.unpack(DimmerData.pack(p)), pack's bytes kept
Packed(packed) ==
  [NoRet EXCEPT !.ok = packed.ok, !.error = packed.error, !.data = packed.data,
                !.unpacked = unpack(packed.data)]

PackCall(p) ==
  /\ call' = [NoCall EXCEPT !.op = "pack", !.data = ObjectData(p)]
  /\ ret' = Packed(pack(p))

InitCodec == Init /\ device = DimmerDevice(0)

\* DimmerData.pack(p), and DimmerData.unpack of the bytes it produced
PackUnpack ==
  /\ pc = "idle"
  /\ \E dir \in PackDirections :
       \/ \E b \in PackBrightnesses, d \in SomeDurations : PackCall(DimmerData(b, d, dir))
       \/ \E b \in SomeBrightnesses, d \in PackDurations : PackCall(DimmerData(b, d, dir))
  /\ prev' = device
  /\ pc' = "returned"
  /\ UNCHANGED <<device, defaultRun, transmission>>

NextCodec == PackUnpack \/ Continue

\* a caller encoding dimmer payloads and decoding them again
SpecCodec == InitCodec /\ [][NextCodec]_vars

\* ---------------------------------------------------------------- ZBus
\* the address argument of ZBus.transmit: a number or an array of numbers
One(address) == [isNumber |-> TRUE, list |-> <<address>>]
Many(addresses) == [isNumber |-> FALSE, list |-> addresses]

RECURSIVE PushAll(_, _, _, _)

\* this.transmission.next(event), then the rest of the addresses; the
\* constructor's error ends the call
Pushed(sink, built, rest, command, data) ==
  IF built.ok THEN PushAll(Append(sink, Get(built.event)), rest, command, data)
              ELSE [ok |-> FALSE, error |-> built.error, transmission |-> sink]

\* address.forEach((address) => ... new DeviceEvent(address, command, data))
PushAll(sink, addresses, command, data) ==
  IF addresses = <<>>
    THEN [ok |-> TRUE, error |-> "", transmission |-> sink]
    ELSE Pushed(sink, DeviceEvent(Head(addresses), command, data),
                Tail(addresses), command, data)

\* mutant: of an array of addresses only the first is served
ZBus_transmit_First(sink, address, command, data) ==
  IF address.list = <<>>
    THEN [ok |-> TRUE, error |-> "", transmission |-> sink]
    ELSE Pushed(sink, DeviceEvent(address.list[1], command, data), <<>>, command, data)

\* ZBus.transmit(address, command, data) on the sink's content so far
ZBus_transmit(sink, address, command, data) ==
  IF address.isNumber
    THEN Pushed(sink, DeviceEvent(address.list[1], command, data), <<>>, command, data)
    ELSE PushAll(sink, address.list, command, data)

\* calls are followed while the sink holds fewer events than this
MaxSink == 2

BusAddresses ==
  {One(a) : a \in {0, 1, MaxDeviceAddress + 1}} \cup
  {Many(l) : l \in {<<>>, <<1, 2>>, <<2, 1>>, <<1, 1>>,
                    <<1, MaxDeviceAddress + 1, 2>>, <<MaxDeviceAddress + 1, 1>>}}
BusCommands == {Name("down"), Num(3), Num(MaxCommand + 1), Name("no-nii")}
BusData == {NoData, ArrayData(<<3, MaxByte>>), ArrayData(<<0>>)}

InitBus == Init /\ device = SwitchingDevice(0)

\* zBus.transmit(address, command, data)
BusTransmit ==
  /\ pc = "idle"
  /\ Len(transmission) < MaxSink
  /\ \E address \in BusAddresses, command \in BusCommands, data \in BusData :
       LET r == ZBus_transmit(transmission, address, command,
                              IF data.kind = "array" THEN Some(data.array) ELSE None)
       IN /\ call' = [NoCall EXCEPT !.op = "ZBus.transmit", !.addresses = address.list,
                                    !.single = address.isNumber, !.command = command,
                                    !.data = data, !.sink = transmission]
          /\ ret' = [NoRet EXCEPT !.ok = r.ok, !.error = r.error]
          /\ transmission' = r.transmission
  /\ prev' = device
  /\ pc' = "returned"
  /\ UNCHANGED <<device, defaultRun>>

NextBus == BusTransmit \/ Continue

\* a script transmitting through the linked ZBus instance
SpecBus == InitBus /\ [][NextBus]_vars

\* ------------------------------------------------ the receive operator
\* the arguments of receive(address?, command?): omitted, a single value
\* or an array; a command or array entry is a number or a string
NoFilter == [kind |-> "undefined", list |-> <<>>]
SingleFilter(v) == [kind |-> "single", list |-> <<v>>]
ArrayFilter(l) == [kind |-> "array", list |-> l]

\* typeof command === 'number' ? command : Command[command], as far as it
\* is a number (no string key of the enum other than a name gives one)
EntryCode(command) ==
  IF command.isNumber THEN Some(command.code)
  ELSE IF command.name \in DOMAIN Command THEN Some(Command[command.name])
  ELSE None

\* the address part of the filter predicate: TRUE if e is not filtered
AddressPasses(address, e) ==
  IF address.kind = "undefined" THEN TRUE
  ELSE IF address.kind = "single" THEN e.address = address.list[1]
  ELSE ~(\A i \in 1..Len(address.list) : address.list[i] # e.address)

\* mutant: the entries of a command array are compared without conversion
CommandPasses_RawEntries(command, e) ==
  IF command.kind = "undefined" THEN TRUE
  ELSE IF command.kind = "array"
    THEN ~(\A i \in 1..Len(command.list) :
             ~command.list[i].isNumber \/ command.list[i].code # e.command)
  ELSE IF command.list[1].isNumber THEN e.command = command.list[1].code
  ELSE IF isCommand(command.list[1].name)
    THEN EntryCode(command.list[1]) = Some(e.command)
  ELSE TRUE

\* the command part: a number, an array, or a string that isCommand
\* accepts; any other string filters nothing
CommandPasses(command, e) ==
  IF command.kind = "undefined" THEN TRUE
  ELSE IF command.kind = "array"
    THEN ~(\A i \in 1..Len(command.list) :
             EntryCode(command.list[i]) # Some(e.command))
  ELSE IF command.list[1].isNumber THEN e.command = command.list[1].code
  ELSE IF isCommand(command.list[1].name)
    THEN EntryCode(command.list[1]) = Some(e.command)
  ELSE TRUE

\* source.pipe(receive(address, command)): the events passed on
receiveOperator(address, command, source) ==
  SelectSeq(source, LAMBDA e : AddressPasses(address, e) /\ CommandPasses(command, e))

\* the event streams and filter arguments of the tests, and some more
Sources ==
  {<< EventOf(0, 0, None), EventOf(0, 0, None), EventOf(1, 2, None), EventOf(2, 0, None) >>,
   << EventOf(0, 0, None), EventOf(99, 3, None), EventOf(99, 12, None) >>,
   << EventOf(99, 12, Some(<<3, 128>>)), EventOf(1, 3, None), EventOf(99, 12, None),
      EventOf(0, 48, None) >>}
AddressFilters ==
  {NoFilter, SingleFilter(0), SingleFilter(1), SingleFilter(99),
   ArrayFilter(<<>>), ArrayFilter(<<0, 1>>), ArrayFilter(<<99, 2>>)}
CommandFilters ==
  {NoFilter} \cup
  {SingleFilter(c) : c \in {Num(0), Num(2), Num(3), Name("toggle"), Name("on"),
                            Name("off"), Name("start"), Name("no-nii"), Name("3")}} \cup
  {ArrayFilter(l) : l \in {<<>>, <<Name("on"), Name("off")>>, <<Num(0), Name("off")>>,
                           <<Name("up-stop"), Num(2)>>, <<Name("no-nii")>>}}

\* reception.pipe(receive(address, command)) subscribed to a source
Subscribe ==
  /\ pc = "idle"
  /\ \E address \in AddressFilters, command \in CommandFilters, source \in Sources :
       /\ call' = [NoCall EXCEPT !.op = "receive operator", !.addressFilter = address,
                                  !.commandFilter = command, !.source = source]
       /\ ret' = [NoRet EXCEPT !.events = receiveOperator(address, command, source)]
  /\ prev' = device
  /\ pc' = "returned"
  /\ UNCHANGED <<device, defaultRun, transmission>>

NextReception == Subscribe \/ Continue

\* a script filtering the reception stream
SpecReception == InitBus /\ [][NextReception]_vars

\* arguments of Machine.transmit that the event constructor or pack
\* rejects (a name outside the catalog, codes beyond both ends of 0..255,
\* payloads of wrong length or with a byte beyond 255, dimmer payloads with
\* brightness, duration or direction out of range), next to accepted ones
RejectedCommands == {Name("no-nii"), Num(-1), Num(MaxCommand + 1)}
AcceptedCommands ==
  {Name(n) : n \in {"on", "off", "up", "stop", "toggle", "up-stop", "default"}}
    \cup {Num(3)}
RejectedData ==
  {ArrayData(<<0>>), ArrayData(<<3, MaxByte + 1>>),
   ObjectData(DimmerData(1100, 800, 0)), ObjectData(DimmerData(500, 3, 0)),
   ObjectData(DimmerData(500, 800, 1))}
AcceptedData == {NoData, ArrayData(<<3, 128>>), ObjectData(DimmerData(500, 800, 0))}

\* device records written as literals, with an address beyond 242
RawDevices ==
  {[SwitchingDevice(0) EXCEPT !.address = <<MaxDeviceAddress + 1>>],
   [DimmerDevice(0) EXCEPT !.address = <<MaxDeviceAddress + 1>>],
   DirectionalGroupDevice(0, MaxDeviceAddress + 1, 1)}

InitRaw ==
  /\ device \in NewDevices \cup RawDevices
  /\ pc = "idle"
  /\ call = NoCall
  /\ prev = device
  /\ ret = NoRet
  /\ defaultRun = 0
  /\ transmission = <<>>

\* Machine.transmit with accepted and rejected arguments
TransmitAny ==
  /\ pc = "idle"
  /\ \E command \in AcceptedCommands \cup RejectedCommands,
        data \in AcceptedData \cup RejectedData,
        addressIndex \in AddressIndices, changeState \in BOOLEAN :
       Returned([NoCall EXCEPT !.op = "transmit", !.command = command,
                               !.data = data, !.addressIndex = addressIndex,
                               !.changeState = changeState],
                transmit(device, command, data, addressIndex, changeState))
  /\ defaultRun' = -1

NextRaw == Receive \/ TransmitAny \/ Continue

\* a caller passing arbitrary arguments to Machine.transmit
SpecRaw == InitRaw /\ [][NextRaw]_vars

TypeOK ==
  /\ device.type \in DeviceTypes
  /\ device.state \in States
  /\ pc \in {"idle", "returned"}
  /\ defaultRun \in -1..MaxRun

\* --------------------------------------------------------------- claims
\* a call of Machine.receive has returned
Received == pc = "returned" /\ call.op = "receive"
\* ... for a device of the given type, the event being on the own address
ReceivedOwn(type) ==
  Received /\ prev.type = type /\ call.event.address = prev.address[1]
Distinct(address) ==
  address[1] # address[2] /\ address[1] # address[3] /\ address[2] # address[3]

SwitchTable(state, code) ==
  CASE code = 3 -> "on"
    [] code = 12 -> "off"
    [] code = 0 /\ state = "off" -> "on"
    [] code = 0 /\ state = "on" -> "off"
    [] OTHER -> state

\* C1: a switch device with address list [a] that receives an event on a
\* goes to 'on' on code 3, to 'off' on code 12, toggles between 'on' and
\* 'off' on code 0 (staying 'undefined' if undefined), and keeps its
\* state on every other code.
C1_SwitchReceive ==
  ReceivedOwn("switch") => device.state = SwitchTable(prev.state, call.event.command)

C1_Witness ==
  /\ ReceivedOwn("switch") /\ prev.state = "on" /\ call.event.command = 0
  /\ device.state = "off"

DirectionalTable(state, code) ==
  CASE code = 3 -> "up"
    [] code = 12 -> "down"
    [] code = 15 -> "stop"
    [] code = 48 /\ state = "up" -> "stop"
    [] code = 48 /\ state \in {"down", "stop"} -> "up"
    [] code = 192 /\ state = "down" -> "stop"
    [] code = 192 /\ state \in {"up", "stop"} -> "down"
    [] OTHER -> state

\* C2: a directional device with address list [a] that receives an event
\* on a goes to up/down/stop on codes 3/12/15 from every state; code 48
\* gives up->stop, down->up, stop->up; code 192 gives up->down,
\* down->stop, stop->down; both leave 'undefined' unchanged, and so does
\* every other code leave every state.
C2_DirectionalReceive ==
  ReceivedOwn("directional") =>
    device.state = DirectionalTable(prev.state, call.event.command)

C2_Witness ==
  /\ ReceivedOwn("directional") /\ prev.state = "down" /\ call.event.command = 48
  /\ device.state = "up"

GroupReceived ==
  Received /\ prev.type = "directional-group" /\ Distinct(prev.address)

\* C3: for a directional-group device with pairwise distinct addresses,
\* an event with code 3, 12 or 15 sets the state to up, down or stop when
\* it is on the group or central address, and leaves the state unchanged
\* when it is on the own address.
C3_GroupCentralCommands ==
  (GroupReceived /\ call.event.command \in {3, 12, 15}) =>
    /\ call.event.address \in {prev.address[2], prev.address[3]} =>
         device.state = DirectionalTable(prev.state, call.event.command)
    /\ call.event.address = prev.address[1] => device.state = prev.state

C3_Witness ==
  /\ GroupReceived /\ call.event.command = 12
  /\ call.event.address = prev.address[3] /\ prev.state = "up"
  /\ device.state = "down"

\* C4: for a directional-group device with pairwise distinct addresses,
\* an event with code 48 or 192 changes the state only on the own address
\* in state up, down or stop (by the step table of the directional
\* device); on the group or central address, or in state undefined, it
\* leaves the state unchanged.
C4_GroupStepCommands ==
  (GroupReceived /\ call.event.command \in {48, 192}) =>
    /\ call.event.address = prev.address[1] =>
         device.state = DirectionalTable(prev.state, call.event.command)
    /\ (call.event.address # prev.address[1] \/ prev.state = "undefined") =>
         device.state = prev.state

C4_Witness ==
  /\ GroupReceived /\ call.event.command = 192
  /\ call.event.address = prev.address[1] /\ prev.state = "down"
  /\ device.state = "stop"

\* C5: receive of an event whose address is not in the device's address
\* list returns no result and leaves the whole device record unchanged.
C5_ForeignAddressIgnored ==
  (Received /\ ~Includes(prev.address, call.event.address)) =>
    /\ ret.ok /\ ret.result = None
    /\ device = prev

C5_Witness ==
  /\ Received /\ ~Includes(prev.address, call.event.address)
  /\ prev.type = "dimmer" /\ prev.state = "on" /\ call.event.command = 12
  /\ device.state = "on"

\* the transitions the tables list for the state of a device, local and global
Listed(d) ==
  LET definition == machineDefinitions[d.type]
      local == IF d.state \in DOMAIN definition.states
                 THEN definition.states[d.state].transitions ELSE <<>>
  IN {local[i] : i \in 1..Len(local)} \cup
     {definition.transitions[i] : i \in 1..Len(definition.transitions)}

NoneMatches(d, event) ==
  \A t \in Listed(d) :
    ~(EvalGuard(t.guard, d, event) /\ Command[t.command] = event.command)

\* C6: receive of a well-formed event on one of the device's addresses,
\* for which no guard-passing transition of the current state or of the
\* global transitions has the event's code, returns no result, raises no
\* error and leaves the whole device record unchanged.
C6_UnmatchedIgnored ==
  (/\ Received /\ Includes(prev.address, call.event.address)
   /\ WellFormed(call.event) /\ NoneMatches(prev, call.event)) =>
    /\ ret.ok /\ ret.result = None
    /\ device = prev

C6_Witness ==
  /\ Received /\ Includes(prev.address, call.event.address)
  /\ NoneMatches(prev, call.event)
  /\ prev.type = "switch" /\ prev.state = "off" /\ call.event.command = 13
  /\ ret.ok /\ ret.result = None /\ device = prev

Directional(d) == d.type \in {"directional", "directional-group"}

\* C7: the entry actions of the target state run before device.state is
\* assigned: whenever a directional or directional-group device enters
\* 'stop' by a transition, its memory afterwards is the state it was in
\* before the transition (absent if that state was undefined).
C7_StopRemembersPrevious ==
  (/\ pc = "returned" /\ Directional(prev)
   /\ IsSome(ret.result) /\ Get(ret.result).state = "stop") =>
    /\ device.state = "stop"
    /\ device.memory = StateOf(prev)
    /\ Get(ret.result).previous = prev.state

C7_Witness ==
  /\ pc = "returned" /\ Directional(prev) /\ IsSome(ret.result)
  /\ Get(ret.result).state = "stop" /\ prev.state = "down"
  /\ device.memory = Some("down")

\* C8: a dimmer that receives toggle (code 0) on its address in state
\* 'on' goes 'off', stores the brightness it had into memory and sets
\* brightness 0.0; in state 'off' it goes 'on' and takes the brightness
\* from memory, or 1.0 if memory is absent.
C8_DimmerToggle ==
  (ReceivedOwn("dimmer") /\ call.event.command = 0) =>
    /\ prev.state = "on" =>
         /\ device.state = "off"
         /\ device.memory = prev.brightness
         /\ device.brightness = Some(0)
    /\ prev.state = "off" =>
         /\ device.state = "on"
         /\ device.memory = prev.memory
         /\ device.brightness =
              IF IsSome(prev.memory) THEN prev.memory ELSE Some(FullBrightness)

C8_Witness ==
  /\ ReceivedOwn("dimmer") /\ call.event.command = 0
  /\ prev.state = "off" /\ prev.memory = Some(128)
  /\ device.state = "on" /\ device.brightness = Some(128)

\* C9: a dimmer that receives 'on' (code 3, payload absent or two bytes)
\* on its address goes 'on' in any state, with brightness byte1/255 of
\* the payload, or 1.0 without payload; receiving 'off' (code 12) in any
\* state gives state 'off' and brightness 0.0.
C9_DimmerOnOff ==
  (ReceivedOwn("dimmer") /\ WellFormed(call.event)) =>
    /\ call.event.command = 3 =>
         /\ device.state = "on"
         /\ device.brightness =
              IF IsSome(call.event.data) THEN Some(Get(call.event.data)[2])
                                         ELSE Some(FullBrightness)
    /\ call.event.command = 12 =>
         /\ device.state = "off"
         /\ device.brightness = Some(0)

C9_Witness ==
  /\ ReceivedOwn("dimmer") /\ call.event.command = 3
  /\ call.event.data = Some(<<3, 128>>) /\ prev.state = "off"
  /\ device.state = "on" /\ device.brightness = Some(128)

DefaultCodes == <<3, 15, 12, 15>>
DefaultStates == <<"up", "stop", "down", "stop">>

\* C10: on a freshly constructed directional device, the n-th of a run of
\* transmit(device, 'default') calls returns an event on the device's
\* address with the n-th code of 3, 15, 12, 15, 3, ... and leaves the
\* device in the n-th state of up, stop, down, stop, up, ...
C10_DirectionalDefaultCycle ==
  (pc = "returned" /\ prev.type = "directional" /\ defaultRun >= 1) =>
    /\ ret.event = Some(EventOf(prev.address[1],
                                DefaultCodes[((defaultRun - 1) % 4) + 1], None))
    /\ device.state = DefaultStates[((defaultRun - 1) % 4) + 1]

C10_Witness ==
  /\ pc = "returned" /\ prev.type = "directional" /\ defaultRun = 7
  /\ ret.event = Some(EventOf(prev.address[1], 12, None))
  /\ prev.state = "stop" /\ prev.memory = Some("up") /\ device.state = "down"

SwitchDefaultCodes == <<3, 12>>
SwitchDefaultStates == <<"on", "off">>

\* C11: on a freshly constructed switch or dimmer, the n-th of a run of
\* transmit(device, 'default') calls with local application returns an
\* event on the device's address with the n-th code of 3, 12, 3, ... and
\* leaves the device in the n-th state of on, off, on, ...; the default
\* never emits the toggle code 0.
C11_SwitchDefaultCycle ==
  (pc = "returned" /\ prev.type \in {"switch", "dimmer"} /\ defaultRun >= 1) =>
    /\ ret.event = Some(EventOf(prev.address[1],
                                SwitchDefaultCodes[((defaultRun - 1) % 2) + 1], None))
    /\ Get(ret.event).command # 0
    /\ device.state = SwitchDefaultStates[((defaultRun - 1) % 2) + 1]

C11_Witness ==
  /\ pc = "returned" /\ prev.type = "dimmer" /\ defaultRun = 4
  /\ ret.event = Some(EventOf(prev.address[1], 12, None))
  /\ prev.state = "on" /\ device.state = "off"

GroupDefaultCodes == <<48, 48, 192, 192>>

\* C12: on a directional-group device in state 'stop' without memory, the
\* n-th of a run of transmit(device, 'default') calls on address index 0
\* returns an event on the device's own address with the n-th code of
\* 48, 48, 192, 192, 48, ... and leaves the device in the n-th state of
\* up, stop, down, stop, up, ...; after the second call the memory is 'up'.
C12_GroupDefaultCycle ==
  (pc = "returned" /\ prev.type = "directional-group" /\ defaultRun >= 1) =>
    /\ ret.event = Some(EventOf(prev.address[1],
                                GroupDefaultCodes[((defaultRun - 1) % 4) + 1], None))
    /\ device.state = DefaultStates[((defaultRun - 1) % 4) + 1]
    /\ defaultRun = 2 => device.memory = Some("up")

C12_Witness ==
  /\ pc = "returned" /\ prev.type = "directional-group" /\ defaultRun = 3
  /\ prev.state = "stop" /\ prev.memory = Some("up")
  /\ ret.event = Some(EventOf(prev.address[1], 192, None))
  /\ device.state = "down"

\* a call of Machine.transmit has returned
Transmitted == pc = "returned" /\ call.op = "transmit"
\* ... with a command of the catalog (by name or by code) other than
\* 'default', an index into the address list and a payload that is absent
\* or can be encoded
Explicit ==
  /\ Transmitted
  /\ IF call.command.isNumber
       THEN call.command.code \in 0..MaxCommand
       ELSE call.command.name \in DOMAIN Command
  /\ call.addressIndex + 1 \in DOMAIN prev.address
  /\ CASE call.data.kind = "array" -> ValidData(call.data.array)
       [] call.data.kind = "object" ->
            machineDefinitions[prev.type].event => pack(call.data.object).ok
       [] OTHER -> TRUE

CodeOf(command) ==
  IF command.isNumber THEN command.code ELSE Command[command.name]

\* C13: transmit with an explicit valid command (name or code) and a valid
\* address index i returns an event whose address is device.address[i]
\* and whose command is the numeric code, whether or not a transition of
\* the device matches; if no allowed transition matches the event, the
\* state of the device is unchanged.
C13_ExplicitTransmit ==
  Explicit =>
    /\ ret.ok /\ IsSome(ret.event)
    /\ Get(ret.event).address = prev.address[call.addressIndex + 1]
    /\ Get(ret.event).command = CodeOf(call.command)
    /\ NoneMatches(prev, Get(ret.event)) => device.state = prev.state

C13_Witness ==
  /\ Explicit /\ call.changeState
  /\ prev.type = "directional-group" /\ prev.state = "undefined"
  /\ call.command = Name("up-stop") /\ call.addressIndex = 1
  /\ prev.address[2] # prev.address[1]
  /\ ret.event = Some(EventOf(prev.address[2], 48, None))
  /\ device.state = "undefined"

\* C14: whenever transmit with local application returns an event e, the
\* device record after the call equals the record that receive(device, e),
\* applied once to the record before the call, produces.
C14_TransmitAppliesReceive ==
  (Transmitted /\ call.changeState /\ IsSome(ret.event)) =>
    device = receive(prev, Get(ret.event)).device

C14_Witness ==
  /\ Transmitted /\ call.changeState
  /\ prev.type = "dimmer" /\ prev.state = "off"
  /\ call.command = Name("on") /\ call.data = ArrayData(<<3, 128>>)
  /\ ret.event = Some(EventOf(prev.address[1], 3, Some(<<3, 128>>)))
  /\ device.state = "on" /\ device.brightness = Some(128)

\* C15: transmit without local application returns the event that the
\* same call with local application returns, and leaves the whole device
\* record unchanged, for every device type, state, command ('default'
\* included) and address index.
C15_TransmitWithoutApplying ==
  (Transmitted /\ ~call.changeState) =>
    /\ device = prev
    /\ ret.event = transmit(prev, call.command, call.data,
                            call.addressIndex, TRUE).event

C15_Witness ==
  /\ Transmitted /\ ~call.changeState
  /\ prev.type = "directional" /\ prev.state = "stop" /\ prev.memory = Some("up")
  /\ call.command = Name("default")
  /\ ret.event = Some(EventOf(prev.address[1], 12, None))
  /\ device = prev

\* the default of the device's state, as its table gives it
DefaultOf(d) ==
  LET states == machineDefinitions[d.type].states
  IN IF d.state \in DOMAIN states THEN states[d.state].default ELSE NoDefault

\* the number of candidates of an array default whose guard holds
Passing(d) ==
  Cardinality({i \in 1..Len(DefaultOf(d).list) :
                 EvalGuard(DefaultOf(d).list[i].guard, d,
                           EventOf(d.address[1], 0, None))})

\* no default defined, or an array default of which zero or several
\* candidates pass their guard
Unresolved(d) ==
  \/ DefaultOf(d).kind = "none"
  \/ DefaultOf(d).kind = "array" /\ Passing(d) # 1

\* C16: transmit(device, 'default') returns no event, raises no error and
\* leaves the device record unchanged whenever the state of the device
\* defines no default or its guarded default array has zero or more than
\* one candidate whose guard passes.
C16_UnresolvedDefault ==
  (Transmitted /\ call.command = Name("default") /\ Unresolved(prev)) =>
    /\ ret.ok
    /\ ret.event = None
    /\ device = prev

\* no default defined (group device in state undefined)
C16_WitnessNoDefault ==
  /\ Transmitted /\ call.command = Name("default") /\ call.changeState
  /\ prev.type = "directional-group" /\ prev.state = "undefined"
  /\ DefaultOf(prev).kind = "none"
  /\ ret.ok /\ ret.event = None /\ device = prev

\* an array default with no passing candidate (stopped twice)
C16_Witness ==
  /\ Transmitted /\ call.command = Name("default") /\ call.changeState
  /\ prev.state = "stop" /\ prev.memory = Some("stop")
  /\ DefaultOf(prev).kind = "array" /\ Passing(prev) = 0
  /\ ret.ok /\ ret.event = None /\ device = prev

\* the central commands of a device type; each names its target state
CentralCommands(type) ==
  IF type \in {"switch", "dimmer"} THEN {"on", "off"} ELSE {"up", "down", "stop"}

\* C17: a switch, dimmer or directional device that receives a central
\* command (on, off; up, down, stop) on its address is afterwards in the
\* state the command names, whatever its state was before, and receiving
\* the same command once more leaves the state unchanged.
C17_CentralCommandsIdempotent ==
  (/\ Received /\ prev.type \in {"switch", "dimmer", "directional"}
   /\ call.event.address = prev.address[1] /\ WellFormed(call.event)) =>
    \A c \in CentralCommands(prev.type) :
      Command[c] = call.event.command =>
        /\ device.state = c
        /\ receive(device, call.event).device.state = device.state

C17_Witness ==
  /\ Received /\ prev.type = "directional" /\ prev.state = "up"
  /\ call.event = EventOf(prev.address[1], 12, None)
  /\ device.state = "down"
  /\ receive(device, call.event).device.state = "down"

\* the transition names the claim lists for the i-th address of a device:
\* the local names of the state, then the global ones
ExpectedKeys(d, i) ==
  CASE d.type \in {"switch", "dimmer"} ->
         (IF d.state = "undefined" THEN <<>> ELSE <<"toggle">>) \o <<"on", "off">>
    [] d.type = "directional" ->
         (IF d.state = "undefined" THEN <<>> ELSE <<"up-stop", "down-stop">>)
           \o <<"up", "down", "stop">>
    [] d.type = "directional-group" ->
         (IF d.state # "undefined" /\ d.address[i] = d.address[1]
            THEN <<"up-stop", "down-stop">> ELSE <<>>)
           \o (IF d.address[i] \in {d.address[2], d.address[3]}
                 THEN <<"up", "down", "stop">> ELSE <<>>)

\* C18: getTransitions returns one list per address of the device, in
\* address order, each holding the local transition names of the current
\* state and then the global ones, as far as their guard holds for an
\* event on that address: [on, off] or [toggle, on, off] for a switch or
\* dimmer, [up, down, stop] or [up-stop, down-stop, up, down, stop] for a
\* directional device, and for a group device [] or [up-stop, down-stop]
\* on its own address and [up, down, stop] on group and central address.
C18_GetTransitions ==
  (pc = "returned" /\ call.op = "getTransitions") =>
    /\ Len(ret.keys) = Len(prev.address)
    /\ \A i \in 1..Len(prev.address) : ret.keys[i] = ExpectedKeys(prev, i)
    /\ device = prev

C18_Witness ==
  /\ pc = "returned" /\ call.op = "getTransitions"
  /\ prev.type = "directional-group" /\ Distinct(prev.address)
  /\ prev.state = "down"
  /\ ret.keys = << <<"up-stop", "down-stop">>, <<"up", "down", "stop">>,
                   <<"up", "down", "stop">> >>

\* C19: receive returns a StateResult exactly when it executed a
\* transition (one that stays in the same state included); the result's
\* previous is the state before the call, its state is the target of the
\* transition and the state of the device afterwards, its event is the
\* triggering event; otherwise receive returns no result and the state of
\* the device is unchanged.
C19_ReceiveResult ==
  Received =>
    /\ WellFormed(call.event) =>
         (IsSome(ret.result) <=>
            /\ Includes(prev.address, call.event.address)
            /\ ~NoneMatches(prev, call.event))
    /\ IsSome(ret.result) =>
         /\ Get(ret.result).previous = prev.state
         /\ Get(ret.result).state = device.state
         /\ Get(ret.result).event = call.event
         /\ \E t \in Listed(prev) :
              /\ EvalGuard(t.guard, prev, call.event)
              /\ Command[t.command] = call.event.command
              /\ t.target = device.state
    /\ ~IsSome(ret.result) => device.state = prev.state

\* a transition that stays in the same state
C19_Witness ==
  /\ Received /\ prev.type = "dimmer" /\ prev.state = "off"
  /\ call.event.command = 12
  /\ IsSome(ret.result)
  /\ Get(ret.result).previous = "off" /\ Get(ret.result).state = "off"
  /\ Get(ret.result).event = call.event

\* a call of the DeviceEvent constructor has returned
Constructed == pc = "returned" /\ call.op = "new DeviceEvent"

\* the arguments the claim accepts
ValidArguments ==
  /\ call.address \in 0..MaxDeviceAddress
  /\ IF call.command.isNumber THEN call.command.code \in 0..MaxCommand
                              ELSE call.command.name \in DOMAIN Command
  /\ call.data.kind = "array" =>
       /\ Len(call.data.array) = 2
       /\ \A i \in 1..2 : call.data.array[i] \in 0..MaxByte

\* C20: constructing a DeviceEvent succeeds if and only if the address is
\* in 0..242, the command is a number in 0..255 or a symbolic name of the
\* Command catalog, and the payload is absent or has exactly 2 elements,
\* each in 0..255; every other input raises an address, command, payload
\* length or payload byte error, and no event is produced.
C20_ConstructorValidates ==
  Constructed =>
    /\ ret.ok <=> ValidArguments
    /\ ret.ok => IsSome(ret.event)
    /\ ~ret.ok =>
         /\ ret.event = None
         /\ ret.error \in {"address", "command", "data length", "data values"}

\* the codes the catalog binds to its names
CatalogCode(name) ==
  CASE name = "toggle" -> 0
    [] name \in {"on", "up"} -> 3
    [] name \in {"off", "down"} -> 12
    [] name = "stop" -> 15
    [] name \in {"up-stop", "start"} -> 48
    [] name \in {"down-stop", "end"} -> 192

CatalogNames ==
  {"toggle", "on", "up", "off", "down", "stop", "up-stop", "start", "down-stop", "end"}

\* the payload argument of a constructor call
PayloadOf(data) == IF data.kind = "array" THEN Some(data.array) ELSE None

\* C21: a DeviceEvent constructed from a name of the Command catalog (with
\* a valid address and payload) carries the code the catalog binds to the
\* name (toggle 0, on/up 3, off/down 12, stop 15, up-stop/start 48,
\* down-stop/end 192), and equals the event constructed from that code.
C21_NameGivesCode ==
  (/\ Constructed /\ ~call.command.isNumber
   /\ call.command.name \in CatalogNames
   /\ call.address \in 0..MaxDeviceAddress
   /\ call.data.kind = "array" => ValidData(call.data.array)) =>
    /\ ret.ok /\ IsSome(ret.event)
    /\ Get(ret.event).command = CatalogCode(call.command.name)
    /\ ret.event = DeviceEvent(call.address, Num(CatalogCode(call.command.name)),
                               PayloadOf(call.data)).event

C21_Witness ==
  /\ Constructed /\ call.command = Name("toggle")
  /\ call.address = MaxDeviceAddress /\ call.data = ArrayData(<<3, MaxByte>>)
  /\ ret.event = Some(EventOf(MaxDeviceAddress, 0, Some(<<3, MaxByte>>)))

\* a call of DimmerData.pack has returned; its argument
Packing == pc = "returned" /\ call.op = "pack"
Payload == call.data.object

Abs(x) == IF x < 0 THEN -x ELSE x

\* C22: pack raises an error and produces no bytes for every payload whose
\* brightness is outside 0..1, whose duration is outside 0.04..160 s or
\* whose direction is not 0 while its brightness is not 1, and produces
\* two bytes for every payload with brightness in 0..1, duration in
\* 0.04..160 s and direction 0.
C22_PackValidates ==
  Packing =>
    /\ (\/ Payload.brightness < 0 \/ Payload.brightness > 1000
        \/ Payload.duration < 4 \/ Payload.duration > 16000
        \/ Payload.direction # 0 /\ Payload.brightness # 1000) =>
          /\ ~ret.ok /\ ret.data = <<>>
          /\ ret.error \in {"brightness", "duration", "direction"}
    /\ (/\ Payload.brightness \in 0..1000 /\ Payload.duration \in 4..16000
        /\ Payload.direction = 0) =>
          ret.ok /\ Len(ret.data) = 2

C22_Witness ==
  /\ Packing /\ Payload = DimmerData(500, 800, 1)
  /\ ~ret.ok /\ ret.error = "direction" /\ ret.data = <<>>

\* C23: for every brightness b in 0..1 and duration d in 0.04..160 s,
\* unpack(pack({b, d, 0})) has a brightness within 1/255 of b and a
\* duration within one quantization step of d: within 2.55 s for
\* d >= 2.55 s, and for d < 2.55 s between the two values 2.55 / (m + 1)
\* and 2.55 / (m - 1) next to the decoded 2.55 / m.
C23_RoundTrip ==
  (Packing /\ ret.ok /\ Payload.direction = 0) =>
    /\ ret.unpacked.ok
    /\ Abs(1000 * ret.unpacked.brightness - FullBrightness * Payload.brightness) <= 1000
    /\ Payload.duration >= 255 =>
         Abs(100 * ret.unpacked.durationNum
               - Payload.duration * ret.unpacked.durationDen)
           <= 255 * ret.unpacked.durationDen
    /\ Payload.duration < 255 =>
         LET m == ret.unpacked.durationDen \div 100
         IN /\ ret.unpacked.durationNum = 255 /\ ret.unpacked.durationDen = 100 * m
            /\ Payload.duration * (m + 1) >= 255
            /\ m = 1 \/ Payload.duration * (m - 1) <= 255

C23_Witness ==
  /\ Packing /\ Payload = DimmerData(500, 10, 0)
  /\ ret.data = <<88, 128>>
  /\ ret.unpacked.brightness = 128
  /\ ret.unpacked.durationNum = 255 /\ ret.unpacked.durationDen = 2500

\* the 7-bit duration code of the bytes pack produced
DurationCode == ret.data[1] % 128

\* C24: for every valid payload, byte 1 is round(brightness * 255), and
\* the duration code in the low 7 bits of byte 0 is the integer nearest to
\* duration / 2.55, in 1..63, for durations of 2.55 s and more, and 64
\* plus the integer nearest to 2.55 / duration - 1, in 64..127, below
\* 2.55 s; nothing is cut off by the 7-bit mask and code 0 never occurs.
\* (1.0, 8 s) gives [3, 255], (0.5, 8 s) [3, 128], (1.0, 160 s) [63, 255],
\* (1.0, 0.04 s) [127, 255].
C24_PackBytes ==
  (Packing /\ ret.ok) =>
    /\ 2000 * ret.data[2] - 510 * Payload.brightness > -1000
    /\ 2000 * ret.data[2] - 510 * Payload.brightness <= 1000
    /\ DurationCode # 0
    /\ ret.data[1] = DurationCode + 128 * Payload.direction
    /\ Payload.duration >= 255 =>
         /\ DurationCode \in 1..63
         /\ 2 * Abs(255 * DurationCode - Payload.duration) <= 255
    /\ Payload.duration < 255 =>
         /\ DurationCode \in 64..127
         /\ 2 * Abs((DurationCode - 64 + 1) * Payload.duration - 255)
              <= Payload.duration
    /\ Payload = DimmerData(1000, 800, 0) => ret.data = <<3, 255>>
    /\ Payload = DimmerData(500, 800, 0) => ret.data = <<3, 128>>
    /\ Payload = DimmerData(1000, 16000, 0) => ret.data = <<63, 255>>
    /\ Payload = DimmerData(1000, 4, 0) => ret.data = <<127, 255>>

C24_Witness ==
  /\ Packing /\ Payload = DimmerData(1000, 4, 0)
  /\ ret.ok /\ ret.data = <<127, 255>>

\* a call of ZBus.transmit has returned
BusTransmitted == pc = "returned" /\ call.op = "ZBus.transmit"

\* ... whose addresses, command and payload are all valid
BusValid ==
  /\ BusTransmitted
  /\ \A i \in 1..Len(call.addresses) : call.addresses[i] \in 0..MaxDeviceAddress
  /\ IF call.command.isNumber THEN call.command.code \in 0..MaxCommand
                              ELSE call.command.name \in CatalogNames
  /\ call.data.kind = "array" => ValidData(call.data.array)

\* C25: ZBus.transmit with a list of valid addresses pushes exactly one
\* event per list entry onto the transmission sink, in list order, each
\* with the same numeric command and payload; with a single address it
\* pushes exactly one event; the events of a call follow those of the
\* calls before it.
C25_BusTransmitOrder ==
  BusValid =>
    /\ ret.ok
    /\ transmission =
         call.sink \o [i \in 1..Len(call.addresses) |->
                         EventOf(call.addresses[i],
                                 IF call.command.isNumber
                                   THEN call.command.code
                                   ELSE CatalogCode(call.command.name),
                                 PayloadOf(call.data))]
    /\ call.single => Len(transmission) = Len(call.sink) + 1

C25_Witness ==
  /\ BusValid /\ call.addresses = <<2, 1>> /\ ~call.single
  /\ call.command = Name("down")
  /\ call.sink = << EventOf(0, 3, Some(<<3, MaxByte>>)) >>
  /\ transmission = << EventOf(0, 3, Some(<<3, MaxByte>>)),
                       EventOf(2, 12, None), EventOf(1, 12, None) >>

\* the receive operator has filtered a source
Subscribed == pc = "returned" /\ call.op = "receive operator"

\* the command argument is omitted, a number, a catalog name or a list
\* of numbers and catalog names
TypedCommandFilter ==
  \A i \in 1..Len(call.commandFilter.list) :
    call.commandFilter.list[i].isNumber
      \/ call.commandFilter.list[i].name \in CatalogNames

\* the code an entry of the command argument stands for
FilterCode(entry) ==
  IF entry.isNumber THEN entry.code ELSE CatalogCode(entry.name)

\* the condition under which the claim lets an event pass
ClaimPasses(e) ==
  /\ \/ call.addressFilter.kind = "undefined"
     \/ \E i \in 1..Len(call.addressFilter.list) :
          call.addressFilter.list[i] = e.address
  /\ \/ call.commandFilter.kind = "undefined"
     \/ \E i \in 1..Len(call.commandFilter.list) :
          FilterCode(call.commandFilter.list[i]) = e.command

NothingExecuted ==
  /\ pc = "returned"
  /\ CASE call.op = "getTransitions" -> TRUE
       [] call.op = "receive" ->
            \/ ~Includes(prev.address, call.event.address)
            \/ NoneMatches(prev, call.event)
       [] call.op = "transmit" ->
            \/ ~call.changeState
            \/ ret.event = None
            \/ NoneMatches(prev, Get(ret.event))
       [] OTHER -> FALSE

\* C27: getTransitions, with the guard evaluation and default resolution
\* it and transmit perform, and every receive or transmit call that does
\* not execute a transition leave the state, memory, brightness and
\* address list of the device as they were.
C27_OnlyExecuteModifies ==
  NothingExecuted =>
    /\ device.state = prev.state /\ device.memory = prev.memory
    /\ device.brightness = prev.brightness /\ device.address = prev.address
    /\ device = prev

C27_Witness ==
  /\ NothingExecuted /\ call.op = "transmit" /\ call.changeState
  /\ call.command = Name("default")
  /\ prev.type = "directional-group" /\ prev.state = "stop"
  /\ prev.memory = Some("stop") /\ ret.event = None
  /\ device = prev

\* C28: whenever a directional or directional-group device reached from
\* construction by receive and transmit calls is in state 'stop', exactly
\* one candidate of the default array passes its guard, and
\* transmit(device, 'default') on address index 0 returns an event and
\* moves the device to 'up' or 'down'.
C28_DefaultNeverStuck ==
  (Directional(device) /\ device.state = "stop") =>
    /\ Passing(device) = 1
    /\ IsSome(transmit(device, Name("default"), NoData, 0, TRUE).event)
    /\ transmit(device, Name("default"), NoData, 0, TRUE).device.state
         \in {"up", "down"}

\* C29: a dimmer that receives 'off' (code 12) on its address while its
\* state is 'off' keeps its whole record, the brightness stored in memory
\* included.
C29_OffInOffKeepsRecord ==
  (ReceivedOwn("dimmer") /\ call.event.command = 12 /\ prev.state = "off") =>
    /\ device.memory = prev.memory
    /\ device = prev

\* C30: whenever transmit(device, 'default', payload, addressIndex) with
\* local application returns an event, the state of the device afterwards
\* is the target of the default transition that was resolved, for every
\* device type, state and valid address index.
C30_DefaultReachesTarget ==
  (/\ Transmitted /\ call.command = Name("default") /\ call.changeState
   /\ IsSome(ret.event)) =>
    /\ IsSome(getDefaultTransition(prev))
    /\ device.state = Get(getDefaultTransition(prev)).target

\* the allowed transitions whose code is the event's, as receive searches them
Matching(d, event) ==
  SelectSeq(getAllowedTransitions(d, event),
            LAMBDA t : Command[t.command] = event.command)

\* C31: for every device record reached, every address of the device and
\* every event code, at most one guard-passing transition among the local
\* transitions of the current state and the global ones has the code of
\* the event received, so what receive executes does not depend on the
\* order of the list.
C31_UnambiguousTransition ==
  (Received /\ Includes(prev.address, call.event.address)) =>
    Len(Matching(prev, call.event)) <= 1

C31_Witness ==
  /\ Received /\ prev.type = "directional-group" /\ prev.state = "up"
  /\ prev.address[1] = prev.address[2]
  /\ call.event = EventOf(prev.address[1], 48, None)
  /\ Len(Matching(prev, call.event)) = 1
  /\ device.state = "stop"

\* the states the tables of a device type name, and undefined
StatesOf(type) ==
  IF type \in {"switch", "dimmer"} THEN {"undefined", "on", "off"}
                                   ELSE {"undefined", "up", "down", "stop"}

\* C32: in every state reached from construction by receive and transmit
\* calls a switch or dimmer has state undefined, on or off and a
\* directional or directional-group device has state undefined, up, down
\* or stop; and a state different from undefined never becomes undefined
\* again.
C32_StatesOfType ==
  /\ [](device.state \in StatesOf(device.type))
  /\ [][device.state # "undefined" => device'.state # "undefined"]_vars

C32_Witness ==
  /\ Received /\ prev.type = "directional-group" /\ prev.state = "stop"
  /\ call.event = EventOf(prev.address[1], 13, None)
  /\ ret.ok /\ ret.result = None
  /\ device.state = "stop"

\* C33: in every state of a dimmer reached from construction by receive
\* and transmit calls, state 'off' implies brightness 0.0.
C33_OffIsDark ==
  (device.type = "dimmer" /\ device.state = "off") => device.brightness = Some(0)

C33_Witness ==
  /\ ReceivedOwn("dimmer") /\ prev.state = "on" /\ prev.brightness = Some(128)
  /\ call.event.command = 12
  /\ device.state = "off" /\ device.brightness = Some(0)

\* the command names the table of a device type uses, local and global
TableNames(type) ==
  LET definition == machineDefinitions[type]
  IN {definition.transitions[j].command : j \in 1..Len(definition.transitions)} \cup
     UNION {{definition.states[s].transitions[j].command :
               j \in 1..Len(definition.states[s].transitions)} :
            s \in DOMAIN definition.states}

GotTransitions == pc = "returned" /\ call.op = "getTransitions"

\* receive on the i-th address of the device with the code of name k
\* executes a transition
Executes(d, i, k) ==
  IsSome(receive(d, EventOf(d.address[i], Command[k], None)).result)

\* C34 as stated: for every device type, state and address index i, a
\* command name k of the catalog is in getTransitions(device)[i] if and
\* only if receive of an event on device.address[i] with the code of k
\* executes a transition.
C34_IntrospectionAgrees ==
  GotTransitions =>
    \A i \in 1..Len(prev.address), k \in DOMAIN Command :
      Includes(ret.keys[i], k) <=> Executes(prev, i, k)

\* C34 amended: every name in getTransitions(device)[i] is executed by
\* receive of its code on device.address[i]; and a name k of the device
\* type's own table is in getTransitions(device)[i] if and only if that
\* receive executes a transition.
C34_IntrospectionAgreesOnTable ==
  GotTransitions =>
    \A i \in 1..Len(prev.address) :
      /\ \A k \in DOMAIN Command : Includes(ret.keys[i], k) => Executes(prev, i, k)
      /\ \A k \in TableNames(prev.type) : Executes(prev, i, k) => Includes(ret.keys[i], k)

C34_Witness ==
  /\ GotTransitions /\ prev.type = "directional-group" /\ Distinct(prev.address)
  /\ prev.state = "up"
  /\ Includes(ret.keys[1], "up-stop") /\ Executes(prev, 1, "up-stop")
  /\ ~Includes(ret.keys[1], "stop") /\ ~Executes(prev, 1, "stop")
  /\ Includes(ret.keys[3], "stop") /\ Executes(prev, 3, "stop")

\* the event a returned transmit call had to build, if address and command
\* were resolved
BuiltBy(d, c) ==
  BuildEvent(getMachineDefinition(d), Get(AddressAt(d, c.addressIndex)),
             Get(ResolveCommand(d, c.command)), c.data)

\* building the outgoing event of the returned transmit call raised an error
BuildFailed ==
  /\ Transmitted
  /\ IsSome(AddressAt(prev, call.addressIndex))
  /\ IsSome(ResolveCommand(prev, call.command))
  /\ ~BuiltBy(prev, call).ok

\* C35: when building the outgoing event of Machine.transmit raises an
\* error (unknown command name, code outside 0..255, device address
\* outside 0..242, raw payload of wrong length or with a byte outside
\* 0..255, dimmer payload rejected by pack), the call raises, no event is
\* returned and the device record is unchanged.
C35_TransmitFailFast ==
  BuildFailed => /\ ~ret.ok /\ ret.event = None /\ ret.result = None
                 /\ device = prev

C35_Witness ==
  /\ BuildFailed /\ prev.type = "dimmer" /\ prev.state = "off"
  /\ call.command = Name("on") /\ call.changeState
  /\ call.data = ObjectData(DimmerData(1100, 800, 0))
  /\ ~ret.ok /\ ret.event = None /\ device = prev

\* C36: when receive on a dimmer raises an error because an 'on' event on
\* one of its addresses carries a malformed payload (length other than 2,
\* or a byte outside 0..255), the device record is unchanged: state,
\* brightness and memory keep their values from before the call.
C36_MalformedOnKeepsRecord ==
  (/\ Received /\ prev.type = "dimmer" /\ call.event.command = 3
   /\ Includes(prev.address, call.event.address) /\ ~WellFormed(call.event)) =>
    /\ ~ret.ok /\ ret.result = None
    /\ device.state = prev.state /\ device.brightness = prev.brightness
    /\ device.memory = prev.memory /\ device = prev

C36_Witness ==
  /\ ReceivedOwn("dimmer") /\ prev.state = "off" /\ prev.memory = Some(128)
  /\ call.event.command = 3 /\ call.event.data = Some(<<3, 256>>)
  /\ ~ret.ok /\ device = prev

\* C37: for every payload that pack accepts with direction 0 or 1, the
\* direction of unpack(pack(p)) is the direction of p, and the direction
\* unpack returns is 0 or 1.
C37_DirectionRoundTrip ==
  (Packing /\ ret.ok /\ Payload.direction \in {0, 1}) =>
    /\ ret.unpacked.ok
    /\ ret.unpacked.direction = Payload.direction
    /\ ret.unpacked.direction \in {0, 1}

\* C38: for every payload p that pack accepts, unpack(pack(p)) is again a
\* payload that pack accepts (duration within 0.04..160 s, brightness
\* within 0..1), and packing it gives the bytes of pack(p) again, also at
\* the durations 0.04 s and 160 s.
C38_ReencodingStable ==
  (Packing /\ ret.ok) =>
    /\ ret.unpacked.ok
    /\ packUnpacked(ret.unpacked).ok
    /\ packUnpacked(ret.unpacked).data = ret.data

\* C39: if a call of ZBus.transmit raises a validation error (for example
\* because one address of the list is outside 0..242), no event of that
\* call has been pushed onto the transmission sink.
C39_BusAllOrNothing ==
  (BusTransmitted /\ ~ret.ok) => transmission = call.sink

====
